---- MODULE Spec2Model ----
\* Task scheduler and execution lifecycle of llm_perf_platform:
\* TaskScheduler (tasks/scheduler.py), CommandExecutor (executor/command_executor.py)
\* and the cancel endpoint (api/tests.py), as a state machine of the threads that
\* run them: one submitting thread per task, the pool's worker threads, and the
\* threads that call cancel.
EXTENDS Integers, Sequences, FiniteSets, TLC

\* ---------------------------------------------------------------- bounds
NumTasks == 2
NumCallers == 1
MaxCalls == 2
MaxWorkers == 1
NumEnvWorkers == 2
NumInstances == 2
MaxFailures == 4

Tasks == 1..NumTasks
Callers == 1..NumCallers
EnvWorkers == 1..NumEnvWorkers
Instances == 1..NumInstances

\* ---------------------------------------------------------------- constants
SIGKILL_EXIT == -9
FAILURE_THRESHOLD == 3

Terminal == {"completed", "failed", "cancelled"}
CancellableStatuses == {"queued", "running"}
DoneStates == {"cancelled", "finished"}
ExitCodes == {0, 1, SIGKILL_EXIT}
PayloadTypes == {"perf_test_api", "generic_command"}
KnownTaskTypes == {"perf_test_api", "perf_test_cmd", "eval_test", "pytest",
                   "env_deploy", "hardware_info", "system_maintenance",
                   "generic_command"}

\* Values of payload["task_type"] beyond the enum: the key is missing
\* ("absent"), or it holds a string that is no member of TaskType.
AnyTaskTypes == KnownTaskTypes \cup {"absent", "no_such_kind"}
ExecutionModes == {"remote", "local"}

\* Payloads of the cancellation scenarios: an API task and a command task,
\* both with an SSH configuration.
Payloads ==
    {[task_type |-> tt, ssh_config |-> TRUE, execution_mode |-> "remote"] :
        tt \in PayloadTypes}

\* Payloads of the dispatch scenarios: every task kind; the SSH configuration
\* and the execution mode vary for the payloads that reach run_test_sync.
DispatchPayloads ==
    {p \in [task_type : AnyTaskTypes, ssh_config : BOOLEAN, execution_mode : ExecutionModes] :
        p.task_type \in (KnownTaskTypes \ {"perf_test_api"})
            => (p.ssh_config /\ p.execution_mode = "remote")}

VARIABLES
    max_workers,    \* ThreadPoolExecutor(max_workers=...)
    lock,           \* TaskScheduler._lock: 0 when free, else the caller holding it
    futures,        \* keys of TaskScheduler._futures
    executors,      \* keys of TaskScheduler._executors
    work_queue,     \* the pool's FIFO of submitted work items
    fut,            \* state of each task's Future
    callbacks,      \* whether the done callback is attached to the Future
    spc,            \* position of the thread running submit(task_id, payload)
    wpc,            \* position of the worker running _run_task(task_id, payload)
    task_type,      \* payload["task_type"]
    ssh_config,     \* payload.get("ssh_config") is present
    execution_mode, \* payload.get("execution_mode", "remote")
    backend,        \* the backend _run_task called for the task
    repo_created,   \* ensure_venv in TestExecutor.__init__ ran create_repo
    status,         \* TaskRecord.status
    result,         \* outcome the backend handed to _run_task
    ex_cancelled,   \* CommandExecutor._cancelled
    process_pgid,   \* CommandExecutor.process_pid / process_pgid are recorded
    proc,           \* the spawned process group
    exit_code,      \* process.returncode
    cpc,            \* position of each cancel caller
    ctask,          \* the task ID a caller cancels
    cvia,           \* "endpoint" (POST /{task_id}/cancel) or "scheduler" (cancel_task)
    csaw,           \* what cancel_task found: executor present, future cancelled
    cret,           \* value returned by cancel_task
    calls,          \* how many cancel requests were made so far
    crepeat,        \* the call was made after a call that returned True for the task
    cancel_true,    \* history: a cancel_task call returned True for the task
    cancel_pending, \* history: cancel_task acted while the task's future was pending
    cancel_hit,     \* history: executor.cancel() was called while the process ran
    runs,           \* how many times _run_task was started for the task
    executions,     \* how many backend executions were performed for the task
    call,           \* one call of a function of the program, with its inputs
    ret,            \* what the call returned
    rec,            \* what the scheduler stored in the task record after it
    raised,         \* history: the task's backend raised an exception
    disk,           \* the files of each task that exist: result file, log file
    env_dir,        \* the directory of one branch environment
    epc,            \* position of each worker inside ensure_repo and its command
    instance_status,        \* ModelInstance.status
    endpoint,               \* ModelInstance.endpoint is set
    health_check_failures,  \* ModelInstance.health_check_failures
    failed_streak   \* history: failed health checks since the last passed one

vars == <<max_workers, lock, futures, executors, work_queue, fut, callbacks, spc,
          wpc, task_type, ssh_config, execution_mode, backend, repo_created,
          status, result, ex_cancelled, process_pgid, proc,
          exit_code, cpc, ctask, cvia, csaw, cret, calls, crepeat, cancel_true,
          cancel_pending, cancel_hit, runs, executions, call, ret, rec, raised,
          disk, env_dir, epc, instance_status, endpoint, health_check_failures,
          failed_streak>>

schedVars == <<max_workers, lock, futures, executors, work_queue, fut, callbacks, spc>>
payloadVars == <<task_type, ssh_config, execution_mode>>
workerVars == <<wpc, task_type, ssh_config, execution_mode, backend, repo_created,
                result, runs, executions>>
procVars == <<ex_cancelled, process_pgid, proc, exit_code>>
callerVars == <<cpc, ctask, cvia, csaw, cret, calls, crepeat>>
histVars == <<cancel_true, cancel_pending, cancel_hit>>
callVars == <<call, ret, rec>>
envVars == <<env_dir, epc>>
healthVars == <<instance_status, endpoint, health_check_failures, failed_streak>>
serviceVars == <<disk, envVars, healthVars>>
progVars == <<max_workers, lock, futures, executors, work_queue, fut, callbacks, spc,
              wpc, task_type, ssh_config, execution_mode, backend, repo_created,
              status, result, ex_cancelled, process_pgid, proc, exit_code, cpc, ctask,
              cvia, csaw, cret, calls, crepeat, cancel_true, cancel_pending,
              cancel_hit, runs, executions, raised>>

\* ---------------------------------------------------------------- helpers

\* TaskService.mark_running / mark_completed / mark_failed / mark_cancelled:
\* an atomic write of the status column of one record.
MarkStatus(st, t, new) == [st EXCEPT ![t] = new]

\* payload.get("task_type", "perf_test_api")
PayloadTaskType(tt) == IF tt = "absent" THEN "perf_test_api" ELSE tt

\* The dispatch without its system_maintenance branch.
BackendOfNoMaintenance(tt) ==
    LET known == IF tt \in KnownTaskTypes THEN tt ELSE "perf_test_api"
    IN  IF known = "perf_test_api" THEN "api"
        ELSE IF known = "hardware_info" THEN "hardware"
        ELSE "command"

\* TaskType(task_type_str), falling back to PERF_TEST_API on ValueError,
\* then the if/elif chain that picks the backend.
BackendOf(tt) ==
    LET known == IF tt \in KnownTaskTypes THEN tt ELSE "perf_test_api"
    IN  IF known = "perf_test_api" THEN "api"
        ELSE IF known = "hardware_info" THEN "hardware"
        ELSE IF known = "system_maintenance" THEN "maintenance"
        ELSE "command"

\* Worker threads that are inside a work item (between dequeue and the end of
\* the future's callbacks).
BusyPcs == {"mark_running", "api_init", "backend", "ensure", "spawn", "record_pid", "wait",
            "unregister", "record", "exc_check", "exc_write", "set_result",
            "cleanup"}
Busy == {t \in Tasks : wpc[t] \in BusyPcs}

\* ThreadPoolExecutor(max_workers=k): a work item is taken only by one of the
\* k pool threads that is not inside another work item.
PoolHasIdleWorkerOffByOne(busy, k) == busy <= k
PoolHasIdleWorker(busy, k) == busy < k

\* self._executor.submit(self._run_task, task_id, payload): one work item.
EnqueueWorkTwice(q, t) == Append(Append(q, t), t)
EnqueueWork(q, t) == Append(q, t)

\* _cleanup: drop the task from both tables.
CleanupTable(table, t) == table \ {t}

\* ---------------------------------------------------------------- initial state
NoFunction == [fn |-> "none"]

SchedulerInit ==
    /\ max_workers \in 1..MaxWorkers
    /\ lock = 0
    /\ futures = {}
    /\ executors = {}
    /\ work_queue = <<>>
    /\ fut = [t \in Tasks |-> "none"]
    /\ callbacks = [t \in Tasks |-> FALSE]
    /\ spc = [t \in Tasks |-> "idle"]
    /\ wpc = [t \in Tasks |-> "none"]
    /\ task_type = [t \in Tasks |-> "none"]
    /\ ssh_config = [t \in Tasks |-> FALSE]
    /\ execution_mode = [t \in Tasks |-> "none"]
    /\ backend = [t \in Tasks |-> "none"]
    /\ repo_created = [t \in Tasks |-> FALSE]
    /\ status = [t \in Tasks |-> "none"]
    /\ result = [t \in Tasks |-> "none"]
    /\ ex_cancelled = [t \in Tasks |-> FALSE]
    /\ process_pgid = [t \in Tasks |-> FALSE]
    /\ proc = [t \in Tasks |-> "none"]
    /\ exit_code = [t \in Tasks |-> 0]
    /\ cpc = [c \in Callers |-> "idle"]
    /\ ctask = [c \in Callers |-> 0]
    /\ cvia = [c \in Callers |-> "none"]
    /\ csaw = [c \in Callers |-> [executor |-> FALSE, cancelled |-> FALSE]]
    /\ cret = [c \in Callers |-> "none"]
    /\ calls = 0
    /\ crepeat = [c \in Callers |-> FALSE]
    /\ cancel_true = [t \in Tasks |-> FALSE]
    /\ cancel_pending = [t \in Tasks |-> FALSE]
    /\ cancel_hit = [t \in Tasks |-> FALSE]
    /\ raised = [t \in Tasks |-> FALSE]
    /\ runs = [t \in Tasks |-> 0]
    /\ executions = [t \in Tasks |-> 0]

\* No task has a file, the branch environment does not exist, no model
\* instance was launched.
ServiceInit ==
    /\ disk = [t \in Tasks |-> {}]
    /\ env_dir = [dir |-> FALSE, git |-> FALSE, bin |-> FALSE, head |-> "none"]
    /\ epc = [w \in EnvWorkers |-> "idle"]
    /\ instance_status = [i \in Instances |-> "pending"]
    /\ endpoint = [i \in Instances |-> FALSE]
    /\ health_check_failures = [i \in Instances |-> 0]
    /\ failed_streak = [i \in Instances |-> 0]

Init ==
    /\ SchedulerInit
    /\ ServiceInit
    /\ call = NoFunction
    /\ ret = NoFunction
    /\ rec = NoFunction

\* ---------------------------------------------------------------- submit

\* The request handler creates the record with status "queued" and calls
\* submit, whose first statement hands _run_task to the pool. Task IDs are
\* handed out in increasing order.
SubmitEnqueue(t, p) ==
    /\ spc[t] = "idle"
    /\ IF t = 1 THEN TRUE ELSE spc[t - 1] # "idle"
    /\ spc' = [spc EXCEPT ![t] = "submitted"]
    /\ status' = MarkStatus(status, t, "queued")
    /\ task_type' = [task_type EXCEPT ![t] = p.task_type]
    /\ ssh_config' = [ssh_config EXCEPT ![t] = p.ssh_config]
    /\ execution_mode' = [execution_mode EXCEPT ![t] = p.execution_mode]
    /\ fut' = [fut EXCEPT ![t] = "pending"]
    /\ work_queue' = EnqueueWork(work_queue, t)
    /\ UNCHANGED <<max_workers, lock, futures, executors, callbacks, wpc, result,
                   backend, repo_created, runs, executions>>
    /\ UNCHANGED procVars
    /\ UNCHANGED callerVars
    /\ UNCHANGED histVars
    /\ UNCHANGED callVars
    /\ UNCHANGED raised
    /\ UNCHANGED serviceVars

\* POST /appauto/update: the handler creates a system_maintenance record
\* with status "queued" and returns its IDs.
UpdateAppautoRequest(t) ==
    /\ spc[t] = "idle"
    /\ IF t = 1 THEN TRUE ELSE spc[t - 1] # "idle"
    /\ spc' = [spc EXCEPT ![t] = "created"]
    /\ status' = MarkStatus(status, t, "queued")
    /\ task_type' = [task_type EXCEPT ![t] = "system_maintenance"]
    /\ UNCHANGED <<max_workers, lock, futures, executors, work_queue, fut, callbacks>>
    /\ UNCHANGED <<ssh_config, execution_mode, wpc, result, backend, repo_created,
                   runs, executions>>
    /\ UNCHANGED procVars
    /\ UNCHANGED callerVars
    /\ UNCHANGED histVars
    /\ UNCHANGED callVars
    /\ UNCHANGED raised
    /\ UNCHANGED serviceVars

\* with self._lock: self._futures[task_id] = future
SubmitRegister(t) ==
    /\ spc[t] = "submitted"
    /\ lock = 0
    /\ futures' = futures \cup {t}
    /\ spc' = [spc EXCEPT ![t] = "registered"]
    /\ UNCHANGED <<max_workers, lock, executors, work_queue, fut, callbacks, status>>
    /\ UNCHANGED workerVars
    /\ UNCHANGED procVars
    /\ UNCHANGED callerVars
    /\ UNCHANGED histVars
    /\ UNCHANGED callVars
    /\ UNCHANGED raised
    /\ UNCHANGED serviceVars

\* future.add_done_callback(...): attached while the future is not done,
\* otherwise _cleanup runs at once in the submitting thread.
SubmitAddCallback(t) ==
    /\ spc[t] = "registered"
    /\ IF fut[t] \in DoneStates
       THEN /\ lock = 0
            /\ futures' = CleanupTable(futures, t)
            /\ executors' = CleanupTable(executors, t)
            /\ UNCHANGED callbacks
       ELSE /\ callbacks' = [callbacks EXCEPT ![t] = TRUE]
            /\ UNCHANGED <<futures, executors>>
    /\ spc' = [spc EXCEPT ![t] = "returned"]
    /\ UNCHANGED <<max_workers, lock, work_queue, fut, status>>
    /\ UNCHANGED workerVars
    /\ UNCHANGED procVars
    /\ UNCHANGED callerVars
    /\ UNCHANGED histVars
    /\ UNCHANGED callVars
    /\ UNCHANGED raised
    /\ UNCHANGED serviceVars

\* ---------------------------------------------------------------- worker pool

\* A pool thread takes the oldest work item. A future cancelled while it was
\* queued is dropped; otherwise the future becomes running and _run_task starts.
PoolDequeue(t) ==
    /\ work_queue # <<>>
    /\ t = Head(work_queue)
    /\ PoolHasIdleWorker(Cardinality(Busy), max_workers)
    /\ work_queue' = Tail(work_queue)
    /\ IF fut[t] = "cancelled"
       THEN UNCHANGED <<fut, wpc, runs>>
       ELSE /\ fut' = [fut EXCEPT ![t] = "running"]
            /\ wpc' = [wpc EXCEPT ![t] = "mark_running"]
            /\ runs' = [runs EXCEPT ![t] = @ + 1]
    /\ UNCHANGED <<max_workers, lock, futures, executors, callbacks, spc, payloadVars,
                   backend, repo_created, status, result, executions>>
    /\ UNCHANGED procVars
    /\ UNCHANGED callerVars
    /\ UNCHANGED histVars
    /\ UNCHANGED callVars
    /\ UNCHANGED raised
    /\ UNCHANGED serviceVars

\* self._task_service.mark_running(task_id), then the dispatch on task_type.
MarkRunning(t) ==
    /\ wpc[t] = "mark_running"
    /\ status' = MarkStatus(status, t, "running")
    /\ backend' = [backend EXCEPT ![t] = BackendOf(PayloadTaskType(task_type[t]))]
    /\ wpc' = [wpc EXCEPT ![t] =
                  IF backend'[t] = "command" THEN "ensure"
                  ELSE IF backend'[t] = "api" THEN "api_init"
                  ELSE "backend"]
    /\ UNCHANGED schedVars
    /\ UNCHANGED <<payloadVars, repo_created, result, runs, executions>>
    /\ UNCHANGED procVars
    /\ UNCHANGED callerVars
    /\ UNCHANGED histVars
    /\ UNCHANGED callVars
    /\ UNCHANGED raised
    /\ UNCHANGED serviceVars

\* VenvManager.ensure_repo: an existing repository is used as it is; a
\* missing one is created (clone and install), which may fail.
EnsureRepoOk(repo_exists, created) == repo_exists \/ created

\* run_test_sync builds a TestExecutor, whose constructor calls
\* venv_manager.ensure_venv(branch) and raises RuntimeError when that
\* returns no path.
ApiInit(t, repo_exists, created) ==
    /\ wpc[t] = "api_init"
    /\ repo_created' = [repo_created EXCEPT ![t] = ~repo_exists]
    /\ wpc' = [wpc EXCEPT ![t] =
                  IF EnsureRepoOk(repo_exists, created) THEN "backend" ELSE "exc_check"]
    /\ UNCHANGED schedVars
    /\ UNCHANGED <<payloadVars, backend, status, result, runs, executions>>
    /\ UNCHANGED procVars
    /\ UNCHANGED callerVars
    /\ UNCHANGED histVars
    /\ UNCHANGED callVars
    /\ raised' = [raised EXCEPT ![t] = ~EnsureRepoOk(repo_exists, created)]
    /\ UNCHANGED serviceVars

\* execute_test: a remote run without ssh_config raises ValueError, which
\* TestExecutor.execute turns into a failure result.
ApiConfigError(mode, ssh) == mode = "remote" /\ ~ssh

\* executor.execute(payload) in run_test_sync / _run_hardware_info_task /
\* _run_system_maintenance_task: the backend returns a success or failure
\* result, or raises.
BackendReturn(t, out) ==
    /\ wpc[t] = "backend"
    /\ (backend[t] = "api" /\ ApiConfigError(execution_mode[t], ssh_config[t]))
          => out # "success"
    /\ executions' = [executions EXCEPT ![t] = @ + 1]
    /\ IF out = "raise"
       THEN /\ wpc' = [wpc EXCEPT ![t] = "exc_check"]
            /\ UNCHANGED result
       ELSE /\ wpc' = [wpc EXCEPT ![t] = "record"]
            /\ result' = [result EXCEPT ![t] = out]
    /\ UNCHANGED schedVars
    /\ UNCHANGED <<payloadVars, backend, repo_created, status, runs>>
    /\ UNCHANGED procVars
    /\ UNCHANGED callerVars
    /\ UNCHANGED histVars
    /\ UNCHANGED callVars
    /\ raised' = [raised EXCEPT ![t] = (out = "raise")]
    /\ UNCHANGED serviceVars

\* _run_command_task up to the registration of the executor: ensure_repo
\* returning no path raises RuntimeError; otherwise a CommandExecutor is built
\* and stored in _executors under the lock.
StartCommandTask(t, env_ok) ==
    /\ wpc[t] = "ensure"
    /\ IF env_ok
       THEN /\ lock = 0
            /\ executors' = executors \cup {t}
            /\ ex_cancelled' = [ex_cancelled EXCEPT ![t] = FALSE]
            /\ wpc' = [wpc EXCEPT ![t] = "spawn"]
       ELSE /\ wpc' = [wpc EXCEPT ![t] = "exc_check"]
            /\ UNCHANGED <<executors, ex_cancelled>>
    /\ UNCHANGED <<max_workers, lock, futures, work_queue, fut, callbacks, spc>>
    /\ UNCHANGED <<payloadVars, backend, repo_created, status, result, runs, executions>>
    /\ UNCHANGED <<process_pgid, proc, exit_code>>
    /\ UNCHANGED callerVars
    /\ UNCHANGED histVars
    /\ UNCHANGED callVars
    /\ raised' = [raised EXCEPT ![t] = ~env_ok]
    /\ UNCHANGED serviceVars

\* executor.execute(payload): the command is built and
\* asyncio.create_subprocess_exec starts it in a new session; a payload the
\* builder rejects is returned as a failure result without a process.
Spawn(t, built) ==
    /\ wpc[t] = "spawn"
    /\ IF built
       THEN /\ proc' = [proc EXCEPT ![t] = "running"]
            /\ executions' = [executions EXCEPT ![t] = @ + 1]
            /\ wpc' = [wpc EXCEPT ![t] = "record_pid"]
            /\ UNCHANGED result
       ELSE /\ result' = [result EXCEPT ![t] = "failed"]
            /\ wpc' = [wpc EXCEPT ![t] = "unregister"]
            /\ UNCHANGED <<proc, executions>>
    /\ UNCHANGED schedVars
    /\ UNCHANGED <<payloadVars, backend, repo_created, status, runs>>
    /\ UNCHANGED <<ex_cancelled, process_pgid, exit_code>>
    /\ UNCHANGED callerVars
    /\ UNCHANGED histVars
    /\ UNCHANGED callVars
    /\ UNCHANGED raised
    /\ UNCHANGED serviceVars

\* self.process_pid = process.pid; self.process_pgid = os.getpgid(process.pid)
RecordPid(t) ==
    /\ wpc[t] = "record_pid"
    /\ process_pgid' = [process_pgid EXCEPT ![t] = TRUE]
    /\ wpc' = [wpc EXCEPT ![t] = "wait"]
    /\ UNCHANGED schedVars
    /\ UNCHANGED <<payloadVars, backend, repo_created, status, result, runs, executions>>
    /\ UNCHANGED <<ex_cancelled, proc, exit_code>>
    /\ UNCHANGED callerVars
    /\ UNCHANGED histVars
    /\ UNCHANGED callVars
    /\ UNCHANGED raised
    /\ UNCHANGED serviceVars

\* The command ends by itself: exit code 0, a non-zero code, or -9 when
\* something outside the platform killed it.
ProcExit(t, code) ==
    /\ proc[t] = "running"
    /\ proc' = [proc EXCEPT ![t] = "exited"]
    /\ exit_code' = [exit_code EXCEPT ![t] = code]
    /\ UNCHANGED schedVars
    /\ UNCHANGED workerVars
    /\ UNCHANGED <<status, ex_cancelled, process_pgid>>
    /\ UNCHANGED callerVars
    /\ UNCHANGED histVars
    /\ UNCHANGED callVars
    /\ UNCHANGED raised
    /\ UNCHANGED serviceVars

\* The error-pattern check of _run_command. Without an output file a known
\* error substring in stdout + stderr returns a failure at once; with an
\* output file the substrings are not looked at and a non-zero exit code is
\* promoted to success. Otherwise success is exit code 0.
PatternRuleIgnoringArtifact(code, output_file, error_pattern) ==
    IF error_pattern THEN "return_failed"
    ELSE IF output_file \/ code = 0 THEN "success"
    ELSE "not_success"

PatternRule(code, output_file, error_pattern) ==
    IF ~output_file /\ error_pattern THEN "return_failed"
    ELSE IF output_file \/ code = 0 THEN "success"
    ELSE "not_success"

\* The classification without the score check of evaluation runs.
ClassifyExitNoScoreCheck(cancelled, code, output_file, error_pattern, score_missing) ==
    IF cancelled /\ code = SIGKILL_EXIT THEN "task_cancelled"
    ELSE IF PatternRule(code, output_file, error_pattern) = "success" THEN "success"
    ELSE "failed"

\* Classification of a finished command in _run_command: the cancellation
\* marker needs both the _cancelled flag and exit code -9. Otherwise the
\* error-pattern check decides, and an evaluation that succeeded so far fails
\* without a score.
ClassifyExit(cancelled, code, output_file, error_pattern, score_missing) ==
    IF cancelled /\ code = SIGKILL_EXIT THEN "task_cancelled"
    ELSE LET rule == PatternRule(code, output_file, error_pattern)
         IN  IF rule = "return_failed" THEN "failed"
             ELSE IF rule = "success" /\ score_missing THEN "failed"
             ELSE IF rule = "success" THEN "success"
             ELSE "failed"

\* asyncio.wait_for(process.communicate(), timeout) returns: the process
\* references are cleared and the result is classified.
WaitReturn(t, output_file, error_pattern, score) ==
    /\ wpc[t] = "wait"
    /\ proc[t] = "exited"
    /\ process_pgid' = [process_pgid EXCEPT ![t] = FALSE]
    /\ result' = [result EXCEPT ![t] =
                     ClassifyExit(ex_cancelled[t], exit_code[t], output_file, error_pattern,
                                  PayloadTaskType(task_type[t]) = "eval_test" /\ ~score)]
    /\ exit_code' = [exit_code EXCEPT ![t] = 0]
    /\ wpc' = [wpc EXCEPT ![t] = "unregister"]
    /\ UNCHANGED schedVars
    /\ UNCHANGED <<payloadVars, backend, repo_created, status, runs, executions>>
    /\ UNCHANGED <<ex_cancelled, proc>>
    /\ UNCHANGED callerVars
    /\ UNCHANGED histVars
    /\ UNCHANGED callVars
    /\ UNCHANGED raised
    /\ UNCHANGED serviceVars

\* os.killpg(pgid, SIGKILL) followed by process.wait(): the group is gone.
KillGroupNoop(p) == p
KillGroup(p) == "exited"

\* asyncio.TimeoutError: the process group is killed, the references are
\* cleared and TimeoutError becomes a failure result in the outer except.
Timeout(t) ==
    /\ wpc[t] = "wait"
    /\ proc[t] = "running"
    /\ proc' = [proc EXCEPT ![t] = KillGroup(proc[t])]
    /\ UNCHANGED exit_code
    /\ process_pgid' = [process_pgid EXCEPT ![t] = FALSE]
    /\ result' = [result EXCEPT ![t] = "timeout"]
    /\ wpc' = [wpc EXCEPT ![t] = "unregister"]
    /\ UNCHANGED schedVars
    /\ UNCHANGED <<payloadVars, backend, repo_created, status, runs, executions>>
    /\ UNCHANGED ex_cancelled
    /\ UNCHANGED callerVars
    /\ UNCHANGED histVars
    /\ UNCHANGED callVars
    /\ UNCHANGED raised
    /\ UNCHANGED serviceVars

\* self._executors.pop(task_id, None)
PopExecutorKept(table, t) == table
PopExecutor(table, t) == table \ {t}

\* finally: with self._lock: self._executors.pop(task_id, None)
UnregisterExecutor(t) ==
    /\ wpc[t] = "unregister"
    /\ lock = 0
    /\ executors' = PopExecutor(executors, t)
    /\ wpc' = [wpc EXCEPT ![t] = "record"]
    /\ UNCHANGED <<max_workers, lock, futures, work_queue, fut, callbacks, spc>>
    /\ UNCHANGED <<payloadVars, backend, repo_created, status, result, runs, executions>>
    /\ UNCHANGED procVars
    /\ UNCHANGED callerVars
    /\ UNCHANGED histVars
    /\ UNCHANGED callVars
    /\ UNCHANGED raised
    /\ UNCHANGED serviceVars

\* The status _run_task writes for a backend result.
StatusOfResult(r) ==
    IF r = "success" THEN "completed"
    ELSE IF r = "task_cancelled" THEN "cancelled"
    ELSE "failed"

\* mark_completed / mark_cancelled / mark_failed at the end of the try block.
RecordResult(t) ==
    /\ wpc[t] = "record"
    /\ status' = MarkStatus(status, t, StatusOfResult(result[t]))
    /\ result' = [result EXCEPT ![t] = "none"]
    /\ wpc' = [wpc EXCEPT ![t] = "set_result"]
    /\ UNCHANGED schedVars
    /\ UNCHANGED <<payloadVars, backend, repo_created, runs, executions>>
    /\ UNCHANGED procVars
    /\ UNCHANGED callerVars
    /\ UNCHANGED histVars
    /\ UNCHANGED callVars
    /\ UNCHANGED raised
    /\ UNCHANGED serviceVars

\* except Exception: re-read the record; a cancelled record is left alone.
ExceptionCheck(t) ==
    /\ wpc[t] = "exc_check"
    /\ wpc' = [wpc EXCEPT ![t] =
                  IF status[t] = "cancelled" THEN "set_result" ELSE "exc_write"]
    /\ UNCHANGED schedVars
    /\ UNCHANGED <<payloadVars, backend, repo_created, status, result, runs, executions>>
    /\ UNCHANGED procVars
    /\ UNCHANGED callerVars
    /\ UNCHANGED histVars
    /\ UNCHANGED callVars
    /\ UNCHANGED raised
    /\ UNCHANGED serviceVars

\* self._task_service.mark_failed(task_id, str(exc))
ExceptionWrite(t) ==
    /\ wpc[t] = "exc_write"
    /\ status' = MarkStatus(status, t, "failed")
    /\ wpc' = [wpc EXCEPT ![t] = "set_result"]
    /\ UNCHANGED schedVars
    /\ UNCHANGED <<payloadVars, backend, repo_created, result, runs, executions>>
    /\ UNCHANGED procVars
    /\ UNCHANGED callerVars
    /\ UNCHANGED histVars
    /\ UNCHANGED callVars
    /\ UNCHANGED raised
    /\ UNCHANGED serviceVars

\* _run_task returned: the future becomes finished; the worker then runs the
\* attached done callback, if any.
SetResult(t) ==
    /\ wpc[t] = "set_result"
    /\ fut' = [fut EXCEPT ![t] = "finished"]
    /\ wpc' = [wpc EXCEPT ![t] = IF callbacks[t] THEN "cleanup" ELSE "idle"]
    /\ UNCHANGED <<max_workers, lock, futures, executors, work_queue, callbacks, spc>>
    /\ UNCHANGED <<payloadVars, backend, repo_created, status, result, runs, executions>>
    /\ UNCHANGED procVars
    /\ UNCHANGED callerVars
    /\ UNCHANGED histVars
    /\ UNCHANGED callVars
    /\ UNCHANGED raised
    /\ UNCHANGED serviceVars

\* _cleanup run by the worker as the future's done callback.
Cleanup(t) ==
    /\ wpc[t] = "cleanup"
    /\ lock = 0
    /\ futures' = CleanupTable(futures, t)
    /\ executors' = CleanupTable(executors, t)
    /\ wpc' = [wpc EXCEPT ![t] = "idle"]
    /\ UNCHANGED <<max_workers, lock, work_queue, fut, callbacks, spc>>
    /\ UNCHANGED <<payloadVars, backend, repo_created, status, result, runs, executions>>
    /\ UNCHANGED procVars
    /\ UNCHANGED callerVars
    /\ UNCHANGED histVars
    /\ UNCHANGED callVars
    /\ UNCHANGED raised
    /\ UNCHANGED serviceVars

\* ---------------------------------------------------------------- cancel

\* CommandExecutor.cancel(): os.killpg reaches the process group only when a
\* PGID is recorded and the group is still alive.
KillReachesRecorded(pgid_recorded, p) == pgid_recorded
KillReaches(pgid_recorded, p) == pgid_recorded /\ p = "running"

\* What cancel() does to the process: a kill that reaches the group ends it
\* with exit code -9, otherwise the process is left as it is.
CancelEffect(pgid_recorded, p, code) ==
    IF KillReaches(pgid_recorded, p)
    THEN [proc |-> "exited", exit_code |-> SIGKILL_EXIT]
    ELSE [proc |-> p, exit_code |-> code]

\* future.cancel() succeeds only on a future no worker has taken.
FutureCancellable(f) == f = "pending"

\* cancel_task's test before marking the record: if executor or cancelled.
CancelSucceeded(saw) == saw.executor \/ saw.cancelled

NoCall == [executor |-> FALSE, cancelled |-> FALSE]

\* A caller starts a cancellation: either the HTTP endpoint, which reads the
\* record and refuses a task that is not queued or running, or a direct call
\* of task_scheduler.cancel_task. A caller thread makes its calls one after
\* the other; caller threads are taken in order.
CancelRequest(c, t, via) ==
    /\ cpc[c] \in {"idle", "done"}
    /\ calls < MaxCalls
    /\ calls' = calls + 1
    /\ IF c = 1 THEN TRUE ELSE cpc[c - 1] # "idle"
    /\ via = "endpoint" => status[t] # "none"
    /\ cret' = [cret EXCEPT ![c] = "none"]
    /\ IF via = "endpoint" /\ status[t] \notin CancellableStatuses
       THEN /\ cpc' = [cpc EXCEPT ![c] = "done"]
            /\ UNCHANGED <<ctask, cvia, crepeat>>
       ELSE /\ cpc' = [cpc EXCEPT ![c] = "call"]
            /\ ctask' = [ctask EXCEPT ![c] = t]
            /\ cvia' = [cvia EXCEPT ![c] = via]
            /\ crepeat' = [crepeat EXCEPT ![c] = cancel_true[t]]
    /\ UNCHANGED <<csaw, status>>
    /\ UNCHANGED schedVars
    /\ UNCHANGED workerVars
    /\ UNCHANGED procVars
    /\ UNCHANGED histVars
    /\ UNCHANGED callVars
    /\ UNCHANGED raised
    /\ UNCHANGED serviceVars

\* cancel_task under self._lock, up to the test "if executor or cancelled":
\* look up both tables, call executor.cancel() when an executor is registered,
\* call future.cancel() when the future is not done. Cancelling a pending
\* future runs its done callback in this thread: _cleanup then waits for the
\* lock this thread already holds.
CancelTaskLocked(c) ==
    LET t == ctask[c]
        has_future == t \in futures
        has_executor == t \in executors
        cancels == has_future /\ fut[t] \notin DoneStates /\ FutureCancellable(fut[t])
    IN  /\ cpc[c] = "call"
        /\ lock = 0
        /\ lock' = c
        /\ IF has_executor
           THEN /\ ex_cancelled' = [ex_cancelled EXCEPT ![t] = TRUE]
                /\ cancel_hit' = [cancel_hit EXCEPT ![t] = @ \/ proc[t] = "running"]
                /\ proc' = [proc EXCEPT ![t] =
                               CancelEffect(process_pgid[t], proc[t], exit_code[t]).proc]
                /\ exit_code' = [exit_code EXCEPT ![t] =
                               CancelEffect(process_pgid[t], proc[t], exit_code[t]).exit_code]
           ELSE UNCHANGED <<ex_cancelled, cancel_hit, proc, exit_code>>
        /\ fut' = IF cancels THEN [fut EXCEPT ![t] = "cancelled"] ELSE fut
        /\ cancel_pending' = [cancel_pending EXCEPT ![t] = @ \/ fut[t] = "pending"]
        /\ csaw' = [csaw EXCEPT ![c] = [executor |-> has_executor, cancelled |-> cancels]]
        /\ cpc' = [cpc EXCEPT ![c] =
                      IF cancels /\ callbacks[t] THEN "cleanup_blocked" ELSE "decide"]
        /\ UNCHANGED <<max_workers, futures, executors, work_queue, callbacks, spc>>
        /\ UNCHANGED workerVars
        /\ UNCHANGED <<status, process_pgid, ctask, cvia, cret, calls, crepeat, cancel_true>>
        /\ UNCHANGED callVars
    /\ UNCHANGED raised
    /\ UNCHANGED serviceVars

\* The end of cancel_task: mark_cancelled and return True, or return False;
\* the lock is released on the way out.
CancelTaskReturn(c) ==
    LET t == ctask[c]
        ok == CancelSucceeded(csaw[c])
        more == cvia[c] = "endpoint" /\ ~ok
    IN  /\ cpc[c] = "decide"
        /\ lock' = 0
        /\ status' = IF ok THEN MarkStatus(status, t, "cancelled") ELSE status
        /\ cancel_true' = [cancel_true EXCEPT ![t] = @ \/ ok]
        /\ cret' = [cret EXCEPT ![c] = IF ok THEN "True" ELSE "False"]
        /\ IF more
           THEN /\ cpc' = [cpc EXCEPT ![c] = "force_mark"]
                /\ UNCHANGED <<ctask, cvia, csaw, crepeat>>
           ELSE /\ cpc' = [cpc EXCEPT ![c] = "done"]
                /\ ctask' = [ctask EXCEPT ![c] = 0]
                /\ cvia' = [cvia EXCEPT ![c] = "none"]
                /\ csaw' = [csaw EXCEPT ![c] = NoCall]
                /\ crepeat' = [crepeat EXCEPT ![c] = FALSE]
        /\ UNCHANGED <<max_workers, futures, executors, work_queue, fut, callbacks, spc>>
        /\ UNCHANGED workerVars
        /\ UNCHANGED procVars
        /\ UNCHANGED <<calls, cancel_pending, cancel_hit>>
        /\ UNCHANGED callVars
    /\ UNCHANGED raised
    /\ UNCHANGED serviceVars

\* The endpoint after cancel_task returned False: task_service.mark_cancelled
\* (the response then says cancelled=True).
EndpointForceMark(c) ==
    /\ cpc[c] = "force_mark"
    /\ status' = MarkStatus(status, ctask[c], "cancelled")
    /\ cpc' = [cpc EXCEPT ![c] = "done"]
    /\ ctask' = [ctask EXCEPT ![c] = 0]
    /\ cvia' = [cvia EXCEPT ![c] = "none"]
    /\ csaw' = [csaw EXCEPT ![c] = NoCall]
    /\ crepeat' = [crepeat EXCEPT ![c] = FALSE]
    /\ UNCHANGED <<cret, calls>>
    /\ UNCHANGED schedVars
    /\ UNCHANGED workerVars
    /\ UNCHANGED procVars
    /\ UNCHANGED histVars
    /\ UNCHANGED callVars
    /\ UNCHANGED raised
    /\ UNCHANGED serviceVars

\* ---------------------------------------------------------------- single calls

CommandTaskTypes == {"perf_test_cmd", "eval_test", "pytest", "env_deploy", "generic_command"}
OtherTaskTypes == {"perf_test_api", "hardware_info", "system_maintenance"}

\* An artifact path a result names: none, a path with no file behind it, or
\* a path of an existing file.
ArtifactStates == {"none", "missing", "exists"}

\* Where the output of an evaluation carries a "score: <number>" line.
ScorePlaces == {"none", "stdout", "stderr"}

\* Outcome of a kill system call.
KillOutcomes == {"ok", "lookup_error", "permission_error"}

\* One finished command: what _run_command sees after process.communicate().
RunCommandCalls ==
    {c \in [fn : {"run_command"}, task_type : CommandTaskTypes, cancelled : BOOLEAN,
            exit_code : ExitCodes, output_xlsx : ArtifactStates, error_pattern : BOOLEAN,
            score : ScorePlaces, stderr : BOOLEAN] :
        c.score = "stderr" => c.stderr}

\* One result of run_test_sync, _run_hardware_info_task or
\* _run_system_maintenance_task. The API backend reports its xlsx both as
\* output_file and as summary output_xlsx; the hardware backend reports the
\* JSON file it has just written; the maintenance backend reports no file; a
\* failure reports no file.
BackendResultCalls ==
    {c \in [fn : {"backend_result"}, task_type : OtherTaskTypes, success : BOOLEAN,
            output_file : ArtifactStates, output_xlsx : ArtifactStates] :
        /\ ~c.success => (c.output_file = "none" /\ c.output_xlsx = "none")
        /\ c.task_type = "perf_test_api" => c.output_xlsx = c.output_file
        /\ (c.task_type = "hardware_info" /\ c.success)
              => (c.output_file = "exists" /\ c.output_xlsx = "none")
        /\ c.task_type = "system_maintenance"
              => (c.output_file = "none" /\ c.output_xlsx = "none")}

\* One DELETE /{task_id}: which paths the record holds and which of the
\* task's files exist on disk.
DeleteCalls ==
    {c \in [fn : {"delete_task"}, result_path : BOOLEAN, archived_path : BOOLEAN,
            files : SUBSET {"result", "archive", "log"}] :
        /\ "result" \in c.files => c.result_path
        /\ "archive" \in c.files => c.archived_path}

\* One CommandExecutor.cancel(): which process IDs are recorded and how the
\* kill calls end.
CancelCalls ==
    {c \in [fn : {"cancel"}, process_pgid : BOOLEAN, process_pid : BOOLEAN,
            killpg : KillOutcomes, kill : KillOutcomes] :
        c.process_pgid => c.process_pid}

\* The directory of one branch environment: whether it exists, holds a git
\* repository, holds .venv/bin/appauto, and which branch HEAD names ("label"
\* is the branch asked for).
EnvStates ==
    {e \in [dir : BOOLEAN, git : BOOLEAN, bin : BOOLEAN, head : {"none", "label", "other"}] :
        /\ e.git => e.dir
        /\ e.bin => e.git
        /\ e.git <=> e.head # "none"}

\* Where create_repo stops: nowhere, or at the step that fails. An install
\* that runs into its timeout is killed at any point of its work and may
\* have written the binary already.
CreateOutcomes ==
    {"none", "clone", "checkout", "verify", "venv", "install", "install_killed",
     "bin_missing"}

\* One ensure_repo(label): the directory found, whether the git query of
\* repo_exists runs (exit code 0, no timeout), and how create_repo goes.
EnsureRepoCalls ==
    [fn : {"ensure_repo"}, env : EnvStates, git_query_ok : BOOLEAN,
     fails_at : CreateOutcomes]

\* One _update_appauto(branch): whether the appauto checkout exists, whether
\* an old .venv is there, and the success flag _run_command returns for each
\* command (exit code 0 within the timeout).
UpdateCalls ==
    [fn : {"update_appauto"}, path_exists : BOOLEAN, old_venv : BOOLEAN,
     fetch : BOOLEAN, checkout : BOOLEAN, pull : BOOLEAN, rm : BOOLEAN,
     venv : BOOLEAN, install_uv : BOOLEAN, install : BOOLEAN]

\* The five steps whose failure ends the operation, in the order of the code.
GatingSteps == <<"git_fetch", "git_checkout", "git_pull", "create_venv", "install_appauto">>

\* One archive_result(engine, model, source_path): whether the source file
\* exists and whether the archive directory of this engine and model exists.
ArchiveCalls ==
    [fn : {"archive_result"}, source_exists : BOOLEAN, archive_dir : BOOLEAN]

\* The error text of a failed command.
ErrorOf(kind, code, output_file, error_pattern, stderr) ==
    IF kind = "success" THEN "none"
    ELSE IF kind = "task_cancelled" THEN "task_cancelled"
    ELSE IF PatternRule(code, output_file, error_pattern) = "return_failed" THEN "pattern"
    ELSE IF PatternRule(code, output_file, error_pattern) = "success" THEN "no_score"
    ELSE IF stderr THEN "stderr"
    ELSE "exit_code"

\* _parse_output and the classification of _run_command, as the dict
\* ExecutionResult.to_dict() hands to _run_task: the score is searched in
\* stdout only, summary["exit_code"] is the exit code, the output file is
\* summary["output_xlsx"].
RunCommandResult(c) ==
    LET has_file == c.output_xlsx # "none"
        has_score == c.score = "stdout"
        kind == ClassifyExit(c.cancelled, c.exit_code, has_file, c.error_pattern,
                             c.task_type = "eval_test" /\ ~has_score)
    IN  [fn |-> "result",
         success |-> kind = "success",
         error |-> ErrorOf(kind, c.exit_code, has_file, c.error_pattern, c.stderr),
         summary_exit_code |-> c.exit_code,
         summary_score |-> has_score /\ kind # "task_cancelled",
         output_file |-> IF kind = "success" THEN c.output_xlsx ELSE "none",
         output_xlsx |-> IF kind = "task_cancelled" THEN "none" ELSE c.output_xlsx]

\* The result location _run_task hands to mark_completed.
RouteResultUnchecked(tt, output_file, output_xlsx) ==
    IF tt = "hardware_info" /\ output_file # "none" THEN "reported"
    ELSE IF tt = "system_maintenance" THEN "empty"
    ELSE IF tt # "perf_test_api" /\ output_xlsx # "none" THEN "moved"
    ELSE IF output_file # "none" THEN "moved"
    ELSE "synthesized"
RouteResult(tt, output_file, output_xlsx) ==
    IF tt = "hardware_info" /\ output_file # "none" THEN "reported"
    ELSE IF tt = "system_maintenance" THEN "empty"
    ELSE IF tt # "perf_test_api" /\ output_xlsx # "none"
         THEN IF output_xlsx = "exists" THEN "moved" ELSE "synthesized"
    ELSE IF output_file = "exists" THEN "moved"
    ELSE "synthesized"

\* What _run_task stores for a result: mark_completed(result_path, summary),
\* mark_cancelled() or mark_failed(error_message).
RecordOf(tt, r) ==
    IF r.success
    THEN [fn |-> "record", status |-> "completed",
          result_path |-> RouteResult(tt, r.output_file, r.output_xlsx),
          summary_stored |-> TRUE, error |-> "none"]
    ELSE [fn |-> "record", status |-> StatusOfResult(r.error),
          result_path |-> "none", summary_stored |-> FALSE,
          error |-> IF r.error = "task_cancelled" THEN "none" ELSE r.error]

\* TaskService.delete_task: the record is gone, get_task finds nothing.
DeleteRecord(found) == FALSE

\* ResultStorage.delete_file and the log deletion of delete_task: nothing
\* is done for an empty path or a file that does not exist.
DeleteFileNoExistsCheck(path_set, present) ==
    [removed |-> path_set /\ present, raised |-> path_set /\ ~present]

DeleteFile(path_set, present) ==
    [removed |-> path_set /\ present, raised |-> FALSE]

\* CommandExecutor.cancel(): the signals it sends. killpg when a PGID is
\* recorded, then kill of the PID only when killpg failed with something
\* other than ProcessLookupError; kill alone when only the PID is recorded.
CancelSignals(pgid, pid, killpg) ==
    IF pgid
    THEN IF killpg = "permission_error" /\ pid THEN {"killpg", "kill"} ELSE {"killpg"}
    ELSE IF pid THEN {"kill"}
    ELSE {}

\* _run_command from process.communicate() to its return value.
RunCommand ==
    /\ call.fn = "run_command"
    /\ ret = NoFunction
    /\ ret' = RunCommandResult(call)
    /\ UNCHANGED <<call, rec>>
    /\ UNCHANGED progVars
    /\ UNCHANGED serviceVars

\* A backend other than the command backend returns its result dict.
RunBackend ==
    /\ call.fn = "backend_result"
    /\ ret = NoFunction
    /\ ret' = [fn |-> "result", success |-> call.success,
               error |-> IF call.success THEN "none" ELSE "backend_error",
               summary_exit_code |-> 0, summary_score |-> FALSE,
               output_file |-> call.output_file, output_xlsx |-> call.output_xlsx]
    /\ UNCHANGED <<call, rec>>
    /\ UNCHANGED progVars
    /\ UNCHANGED serviceVars

\* The result handling of _run_task.
RecordOutcome ==
    /\ ret.fn = "result"
    /\ rec = NoFunction
    /\ rec' = RecordOf(call.task_type, ret)
    /\ UNCHANGED <<call, ret>>
    /\ UNCHANGED progVars
    /\ UNCHANGED serviceVars

\* delete_task: the record is deleted, then the result file, the archived
\* file and the log file; a later get_task finds nothing.
DeleteTask ==
    LET r == DeleteFile(call.result_path, "result" \in call.files)
        a == DeleteFile(call.archived_path, "archive" \in call.files)
        l == DeleteFile(TRUE, "log" \in call.files)
        gone == (IF r.removed THEN {"result"} ELSE {})
                  \cup (IF ~r.raised /\ a.removed THEN {"archive"} ELSE {})
                  \cup (IF ~r.raised /\ ~a.raised /\ l.removed THEN {"log"} ELSE {})
    IN  /\ call.fn = "delete_task"
        /\ ret = NoFunction
        /\ ret' = [fn |-> "deleted", found |-> DeleteRecord(TRUE), files |-> call.files \ gone,
                   raised |-> r.raised \/ a.raised \/ l.raised]
        /\ UNCHANGED <<call, rec>>
        /\ UNCHANGED progVars
    /\ UNCHANGED serviceVars

\* CommandExecutor.cancel() on its own: the flag is set, the signals are
\* sent, every exception of the kill calls is caught.
ExecutorCancel ==
    /\ call.fn = "cancel"
    /\ ret = NoFunction
    /\ ret' = [fn |-> "cancelled", cancelled |-> TRUE, raised |-> FALSE,
               signals |-> CancelSignals(call.process_pgid, call.process_pid, call.killpg)]
    /\ UNCHANGED <<call, rec>>
    /\ UNCHANGED progVars
    /\ UNCHANGED serviceVars

\* VenvManager.repo_exists: the binary is a file, .git exists and
\* git rev-parse --abbrev-ref HEAD answers the branch asked for.
RepoExists(e, git_query_ok) == e.bin /\ e.git /\ git_query_ok /\ e.head = "label"

\* VenvManager.create_repo: the directory is removed and made again, then
\* clone, checkout, verification, uv venv, uv pip install and the check of
\* the binary follow, each ending the function with False when it fails.
CreateRepo(fails_at) ==
    [ok |-> fails_at = "none",
     env |-> IF fails_at = "clone"
             THEN [dir |-> TRUE, git |-> FALSE, bin |-> FALSE, head |-> "none"]
             ELSE IF fails_at \in {"checkout", "verify"}
             THEN [dir |-> TRUE, git |-> TRUE, bin |-> FALSE, head |-> "other"]
             ELSE IF fails_at \in {"venv", "install", "bin_missing"}
             THEN [dir |-> TRUE, git |-> TRUE, bin |-> FALSE, head |-> "label"]
             ELSE [dir |-> TRUE, git |-> TRUE, bin |-> TRUE, head |-> "label"]]

\* VenvManager.ensure_repo
EnsureRepo ==
    /\ call.fn = "ensure_repo"
    /\ ret = NoFunction
    /\ ret' = IF RepoExists(call.env, call.git_query_ok)
              THEN [fn |-> "ensured", path |-> TRUE, rebuilt |-> FALSE, env |-> call.env]
              ELSE [fn |-> "ensured", path |-> CreateRepo(call.fails_at).ok,
                    rebuilt |-> TRUE, env |-> CreateRepo(call.fails_at).env]
    /\ UNCHANGED <<call, rec>>
    /\ UNCHANGED progVars
    /\ UNCHANGED serviceVars

\* The commands up to the creation of the venv, once git pull succeeded:
\* an old .venv is removed first, and a failure of that removal is only logged.
VenvCommands(c) ==
    <<"git_fetch", "git_checkout", "git_pull">>
        \o (IF c.old_venv THEN <<"rm_venv">> ELSE <<>>)
        \o <<"create_venv">>

\* _update_appauto with a failing git pull only logged.
UpdateAppautoResultPullIgnored(c) ==
    IF ~c.path_exists THEN [success |-> FALSE, steps |-> <<>>]
    ELSE IF ~c.fetch THEN [success |-> FALSE, steps |-> <<"git_fetch">>]
    ELSE IF ~c.checkout THEN [success |-> FALSE, steps |-> <<"git_fetch", "git_checkout">>]
    ELSE IF ~c.venv THEN [success |-> FALSE, steps |-> VenvCommands(c)]
    ELSE [success |-> c.install,
          steps |-> VenvCommands(c) \o <<"install_uv", "install_appauto">>]

\* SystemMaintenanceExecutor._update_appauto: the commands it runs, in
\* order, and the success flag of its result. A missing appauto path ends
\* it before any command; fetch, checkout, pull, venv creation and the
\* install of appauto end it when they fail; the removal of the old venv and
\* the install of uv do not.
UpdateAppautoResult(c) ==
    IF ~c.path_exists THEN [success |-> FALSE, steps |-> <<>>]
    ELSE IF ~c.fetch THEN [success |-> FALSE, steps |-> <<"git_fetch">>]
    ELSE IF ~c.checkout THEN [success |-> FALSE, steps |-> <<"git_fetch", "git_checkout">>]
    ELSE IF ~c.pull
         THEN [success |-> FALSE, steps |-> <<"git_fetch", "git_checkout", "git_pull">>]
    ELSE IF ~c.venv THEN [success |-> FALSE, steps |-> VenvCommands(c)]
    ELSE [success |-> c.install,
          steps |-> VenvCommands(c) \o <<"install_uv", "install_appauto">>]

\* SystemMaintenanceExecutor.execute with operation update_appauto
UpdateAppauto ==
    /\ call.fn = "update_appauto"
    /\ ret = NoFunction
    /\ ret' = [fn |-> "updated", success |-> UpdateAppautoResult(call).success,
               steps |-> UpdateAppautoResult(call).steps]
    /\ UNCHANGED <<call, rec>>
    /\ UNCHANGED progVars
    /\ UNCHANGED serviceVars

\* archive_result that copies the file instead of moving it.
ArchiveResultCopy(source_exists, archive_dir) ==
    [raised |-> IF source_exists THEN "none" ELSE "FileNotFoundError",
     source |-> source_exists,
     destination |-> source_exists,
     archive_dir |-> archive_dir \/ source_exists]

\* ResultStorage.archive_result: a missing source raises before anything is
\* made; otherwise the timestamp directory is made and the file is moved.
ArchiveResult(source_exists, archive_dir) ==
    [raised |-> IF source_exists THEN "none" ELSE "FileNotFoundError",
     source |-> FALSE,
     destination |-> source_exists,
     archive_dir |-> archive_dir \/ source_exists]

\* ResultStorage.archive_result called by archive_task
ArchiveTask ==
    /\ call.fn = "archive_result"
    /\ ret = NoFunction
    /\ ret' = [fn |-> "archived",
               raised |-> ArchiveResult(call.source_exists, call.archive_dir).raised,
               source |-> ArchiveResult(call.source_exists, call.archive_dir).source,
               destination |->
                   ArchiveResult(call.source_exists, call.archive_dir).destination,
               archive_dir |->
                   ArchiveResult(call.source_exists, call.archive_dir).archive_dir]
    /\ UNCHANGED <<call, rec>>
    /\ UNCHANGED progVars
    /\ UNCHANGED serviceVars

CallInit ==
    /\ SchedulerInit
    /\ ServiceInit
    /\ call \in RunCommandCalls \cup BackendResultCalls \cup DeleteCalls \cup CancelCalls
                \cup EnsureRepoCalls \cup UpdateCalls \cup ArchiveCalls
    /\ ret = NoFunction
    /\ rec = NoFunction

CallNext ==
    \/ RunCommand
    \/ RunBackend
    \/ RecordOutcome
    \/ DeleteTask
    \/ ExecutorCancel
    \/ EnsureRepo
    \/ UpdateAppauto
    \/ ArchiveTask

CallSpec == CallInit /\ [][CallNext]_vars

\* ---------------------------------------------------------------- delete

\* Everything the deletion scenarios leave alone.
deleteFrame == <<max_workers, lock, futures, executors, work_queue, fut, callbacks, spc,
                 task_type, ssh_config, execution_mode, backend, repo_created, runs,
                 executions, raised, procVars, callerVars, histVars, callVars,
                 envVars, healthVars>>

\* TaskService.mark_running / mark_completed / mark_failed for a record that
\* may have been deleted: nothing is written for a row that is gone.
MarkStatusIfPresent(st, t, new) == IF st[t] = "deleted" THEN st ELSE MarkStatus(st, t, new)

\* A handler creates the record and submits the task.
CreateTask(t) ==
    /\ status[t] = "none"
    /\ wpc[t] = "none"
    /\ status' = MarkStatus(status, t, "queued")
    /\ wpc' = [wpc EXCEPT ![t] = "queued"]
    /\ UNCHANGED <<result, disk>>
    /\ UNCHANGED deleteFrame

\* A worker takes the task: mark_running, then the backend is built.
WorkerBegins(t) ==
    /\ wpc[t] = "queued"
    /\ status' = MarkStatusIfPresent(status, t, "running")
    /\ wpc' = [wpc EXCEPT ![t] = "backend"]
    /\ UNCHANGED <<result, disk>>
    /\ UNCHANGED deleteFrame

\* The backend runs: its log_info / log_error calls append to the task's log
\* file, which makes the file when it is not there; then it returns.
BackendLogs(t, out) ==
    /\ wpc[t] = "backend"
    /\ disk' = [disk EXCEPT ![t] = @ \cup {"log"}]
    /\ result' = [result EXCEPT ![t] = out]
    /\ wpc' = [wpc EXCEPT ![t] = "record"]
    /\ UNCHANGED status
    /\ UNCHANGED deleteFrame

\* The result handling of _run_task: on success the result file is moved
\* into, or synthesized in, the results directory, then mark_completed is
\* called; on failure mark_failed.
StoreOutcome(t) ==
    /\ wpc[t] = "record"
    /\ disk' = [disk EXCEPT ![t] = IF result[t] = "success" THEN @ \cup {"result"} ELSE @]
    /\ status' = MarkStatusIfPresent(status, t, StatusOfResult(result[t]))
    /\ result' = [result EXCEPT ![t] = "none"]
    /\ wpc' = [wpc EXCEPT ![t] = "idle"]
    /\ UNCHANGED deleteFrame

\* DELETE /{task_id}: the record is removed whatever its status; the result
\* file named by the record and the log file are removed when they exist.
DeleteRequest(t) ==
    /\ status[t] \notin {"none", "deleted"}
    /\ status' = [status EXCEPT ![t] = "deleted"]
    /\ disk' = [disk EXCEPT ![t] =
                   {f \in @ : ~DeleteFile(f = "log" \/ status[t] = "completed", TRUE).removed}]
    /\ UNCHANGED <<wpc, result>>
    /\ UNCHANGED deleteFrame

DeleteNext ==
    \/ \E t \in Tasks : CreateTask(t)
    \/ \E t \in Tasks : WorkerBegins(t)
    \/ \E t \in Tasks, out \in {"success", "failed"} : BackendLogs(t, out)
    \/ \E t \in Tasks : StoreOutcome(t)
    \/ \E t \in Tasks : DeleteRequest(t)

DeleteSpec == Init /\ [][DeleteNext]_vars

\* ---------------------------------------------------------------- environments

\* Everything the environment scenarios leave alone.
envFrame == <<progVars, callVars, disk, healthVars>>

\* Positions of a worker inside create_repo.
BuildPcs == {"clone", "venv", "install"}

\* _run_command_task calls ensure_repo(branch), which starts with
\* repo_exists: an environment it accepts is used as it is, any other is
\* handed to create_repo.
EnvCheck(w, git_query_ok) ==
    /\ epc[w] = "idle"
    /\ epc' = [epc EXCEPT ![w] = IF RepoExists(env_dir, git_query_ok) THEN "run" ELSE "remove"]
    /\ UNCHANGED env_dir
    /\ UNCHANGED envFrame

\* create_repo: shutil.rmtree(repo_path) when it exists, then mkdir.
EnvRemove(w) ==
    /\ epc[w] = "remove"
    /\ env_dir' = [dir |-> TRUE, git |-> FALSE, bin |-> FALSE, head |-> "none"]
    /\ epc' = [epc EXCEPT ![w] = "clone"]
    /\ UNCHANGED envFrame

\* create_repo: git clone into repo_path (with its fallback and the branch
\* verification); git refuses a directory that is not empty.
EnvClone(w, ok) ==
    /\ epc[w] = "clone"
    /\ IF ok /\ ~env_dir.git
       THEN /\ env_dir' = [dir |-> TRUE, git |-> TRUE, bin |-> FALSE, head |-> "label"]
            /\ epc' = [epc EXCEPT ![w] = "venv"]
       ELSE /\ epc' = [epc EXCEPT ![w] = "failed"]
            /\ UNCHANGED env_dir
    /\ UNCHANGED envFrame

\* create_repo: uv venv .venv inside repo_path
EnvVenv(w, ok) ==
    /\ epc[w] = "venv"
    /\ epc' = [epc EXCEPT ![w] = IF ok THEN "install" ELSE "failed"]
    /\ UNCHANGED env_dir
    /\ UNCHANGED envFrame

\* create_repo: uv pip install . inside repo_path, which needs the cloned
\* sources, then the check that the binary is there; ensure_repo then
\* returns the path and the command is started.
EnvInstall(w, ok) ==
    /\ epc[w] = "install"
    /\ IF ok /\ env_dir.git
       THEN /\ env_dir' = [env_dir EXCEPT !.bin = TRUE]
            /\ epc' = [epc EXCEPT ![w] = "run"]
       ELSE /\ epc' = [epc EXCEPT ![w] = "failed"]
            /\ UNCHANGED env_dir
    /\ UNCHANGED envFrame

\* The command of the task runs with the binary of the environment and ends.
EnvRun(w) ==
    /\ epc[w] = "run"
    /\ epc' = [epc EXCEPT ![w] = "done"]
    /\ UNCHANGED env_dir
    /\ UNCHANGED envFrame

\* The worker thread takes the next command task of the same branch.
EnvNextTask(w) ==
    /\ epc[w] \in {"done", "failed"}
    /\ epc' = [epc EXCEPT ![w] = "idle"]
    /\ UNCHANGED env_dir
    /\ UNCHANGED envFrame

EnvNext ==
    \/ \E w \in EnvWorkers, git_query_ok \in BOOLEAN : EnvCheck(w, git_query_ok)
    \/ \E w \in EnvWorkers : EnvRemove(w)
    \/ \E w \in EnvWorkers, ok \in BOOLEAN : EnvClone(w, ok)
    \/ \E w \in EnvWorkers, ok \in BOOLEAN : EnvVenv(w, ok)
    \/ \E w \in EnvWorkers, ok \in BOOLEAN : EnvInstall(w, ok)
    \/ \E w \in EnvWorkers : EnvRun(w)
    \/ \E w \in EnvWorkers : EnvNextTask(w)

EnvSpec == Init /\ [][EnvNext]_vars

\* ---------------------------------------------------------------- health checks

\* Everything the health check scenarios leave alone.
healthFrame == <<progVars, callVars, disk, envVars>>

\* The statuses HealthCheckService._check_all_instances selects.
CheckedStatuses == {"loading", "running", "health_check_failed"}

\* launch_model hands the pending instance to _launch_via_amaas or
\* _launch_via_ft, which sets LOADING first.
LaunchModel(i) ==
    /\ instance_status[i] = "pending"
    /\ instance_status' = [instance_status EXCEPT ![i] = "loading"]
    /\ UNCHANGED <<endpoint, health_check_failures, failed_streak>>
    /\ UNCHANGED healthFrame

\* The launch ends: the endpoint is stored with status RUNNING, or the
\* status becomes ERROR.
LaunchDone(i, ok) ==
    /\ instance_status[i] = "loading"
    /\ ~endpoint[i]
    /\ instance_status' = [instance_status EXCEPT ![i] = IF ok THEN "running" ELSE "error"]
    /\ endpoint' = [endpoint EXCEPT ![i] = ok]
    /\ UNCHANGED <<health_check_failures, failed_streak>>
    /\ UNCHANGED healthFrame

\* stop_model: nothing to do for an instance that is_stopped.
StopModel(i) ==
    /\ instance_status[i] \notin {"stopped", "error"}
    /\ instance_status' = [instance_status EXCEPT ![i] = "stopped"]
    /\ UNCHANGED <<endpoint, health_check_failures, failed_streak>>
    /\ UNCHANGED healthFrame

\* ModelLifecycleManager.check_health: without an endpoint nothing is
\* written; a 200 answer resets the counter and turns LOADING into RUNNING;
\* any other answer or an exception adds one to the counter and sets
\* HEALTH_CHECK_FAILED from the third failure on.
CheckHealthResult(st, failures, has_endpoint, outcome) ==
    IF ~has_endpoint THEN [healthy |-> FALSE, status |-> st, failures |-> failures]
    ELSE IF outcome = "healthy"
    THEN [healthy |-> TRUE,
          status |-> IF st = "loading" THEN "running" ELSE st,
          failures |-> 0]
    ELSE [healthy |-> FALSE,
          status |-> IF failures + 1 >= FAILURE_THRESHOLD THEN "health_check_failed" ELSE st,
          failures |-> failures + 1]

\* One check of one instance in a cycle of the health check service.
\* failed_streak counts the consecutive failed probes of the endpoint; a
\* check that finds no endpoint probes nothing.
CheckHealth(i, outcome) ==
    /\ instance_status[i] \in CheckedStatuses
    /\ health_check_failures[i] < MaxFailures
    /\ failed_streak[i] < MaxFailures
    /\ LET r == CheckHealthResult(instance_status[i], health_check_failures[i],
                                  endpoint[i], outcome)
       IN  /\ instance_status' = [instance_status EXCEPT ![i] = r.status]
           /\ health_check_failures' = [health_check_failures EXCEPT ![i] = r.failures]
           /\ failed_streak' = [failed_streak EXCEPT ![i] =
                                  IF ~endpoint[i] THEN @
                                  ELSE IF r.healthy THEN 0 ELSE @ + 1]
    /\ UNCHANGED endpoint
    /\ UNCHANGED healthFrame

HealthNext ==
    \/ \E i \in Instances : LaunchModel(i)
    \/ \E i \in Instances, ok \in BOOLEAN : LaunchDone(i, ok)
    \/ \E i \in Instances : StopModel(i)
    \/ \E i \in Instances, outcome \in {"healthy", "unhealthy", "error"} :
          CheckHealth(i, outcome)

HealthSpec == Init /\ [][HealthNext]_vars

\* ---------------------------------------------------------------- specification

Submitter(t) ==
    \/ \E p \in Payloads : SubmitEnqueue(t, p)
    \/ SubmitRegister(t)
    \/ SubmitAddCallback(t)

Worker(t) ==
    \/ PoolDequeue(t)
    \/ MarkRunning(t)
    \/ \E repo_exists \in BOOLEAN, created \in BOOLEAN : ApiInit(t, repo_exists, created)
    \/ \E out \in {"success", "failed", "raise"} : BackendReturn(t, out)
    \/ \E env_ok \in BOOLEAN : StartCommandTask(t, env_ok)
    \/ \E built \in BOOLEAN : Spawn(t, built)
    \/ RecordPid(t)
    \/ \E output_file \in BOOLEAN, error_pattern \in BOOLEAN, score \in BOOLEAN :
          WaitReturn(t, output_file, error_pattern, score)
    \/ Timeout(t)
    \/ UnregisterExecutor(t)
    \/ RecordResult(t)
    \/ ExceptionCheck(t)
    \/ ExceptionWrite(t)
    \/ SetResult(t)
    \/ Cleanup(t)

Process(t) == \E code \in ExitCodes : ProcExit(t, code)

CancelStart(c) == \E t \in Tasks, via \in {"endpoint", "scheduler"} : CancelRequest(c, t, via)

CancelProgress(c) ==
    \/ CancelTaskLocked(c)
    \/ CancelTaskReturn(c)
    \/ EndpointForceMark(c)

Next ==
    \/ \E t \in Tasks : Submitter(t)
    \/ \E t \in Tasks : Worker(t)
    \/ \E t \in Tasks : Process(t)
    \/ \E c \in Callers : CancelStart(c)
    \/ \E c \in Callers : CancelProgress(c)

Spec == Init /\ [][Next]_vars

\* The dispatch scenarios: tasks of every kind are submitted and run to their
\* end; nobody cancels.
DispatchSubmitter(t) ==
    \/ \E p \in DispatchPayloads : SubmitEnqueue(t, p)
    \/ SubmitRegister(t)
    \/ SubmitAddCallback(t)

DispatchNext ==
    \/ \E t \in Tasks : DispatchSubmitter(t)
    \/ \E t \in Tasks : UpdateAppautoRequest(t)
    \/ \E t \in Tasks : Worker(t)
    \/ \E t \in Tasks : Process(t)

DispatchSpec == Init /\ [][DispatchNext]_vars

\* Every step that is not a new request from outside: the steps of submit
\* after the enqueue, of the workers, of the processes and of cancel calls
\* already made.
Progress ==
    \/ \E t \in Tasks : SubmitRegister(t) \/ SubmitAddCallback(t)
    \/ \E t \in Tasks : Worker(t)
    \/ \E t \in Tasks : Process(t)
    \/ \E c \in Callers : CancelProgress(c)

\* ---------------------------------------------------------------- claims

\* C1: the statuses written to a task's record form a prefix of
\* queued -> running -> {completed, failed, cancelled}: a terminal status is
\* never changed by a later write, running is written only over queued, and
\* queued is never written again.
C1_StatusSequenceIsPrefix ==
    [][\A t \in Tasks :
          /\ status[t] \in Terminal => status'[t] = status[t]
          /\ (status'[t] = "running" /\ status[t] # "running") => status[t] = "queued"
          /\ (status'[t] = "queued" /\ status[t] # "queued") => status[t] = "none"]_vars

\* C2: each submitted task runs at most once: _run_task is started at most
\* one time and at most one backend execution is performed for it.
C2_RunsAtMostOnce ==
    \A t \in Tasks : runs[t] <= 1 /\ executions[t] <= 1

\* C2 witness: a task ran once, executed its backend once and finished while
\* a cancel_task call for it returned True.
C2_Witness ==
    \E t \in Tasks : /\ runs[t] = 1
                     /\ executions[t] = 1
                     /\ wpc[t] = "idle"
                     /\ cancel_true[t]

\* C3: every submitted task eventually has a terminal status. Stated on
\* finite runs: while some record is still queued or running, some thread
\* (submit, worker, process or a cancel call under way) can take a step.
C3_SubmittedTaskCanStillFinish ==
    (\E t \in Tasks : status[t] \in {"queued", "running"}) => ENABLED Progress

\* C4: with a pool of size K the number of tasks whose worker body is
\* executing at the same time never exceeds K.
C4_AtMostKConcurrent ==
    Cardinality(Busy) <= max_workers

\* C4 witness: all K workers are blocked in a backend while a further
\* submitted task waits in the queue.
C4_Witness ==
    /\ Cardinality(Busy) = max_workers
    /\ \A t \in Busy : wpc[t] \in {"backend", "wait"}
    /\ \E t \in Tasks : t \notin Busy /\ fut[t] = "pending" /\ spc[t] = "returned"

\* C5: if cancel_task(id) acts while the task's future is still pending in
\* the pool queue, the worker body of that task never runs and its record
\* never receives status running.
C5_CancelWhilePendingPreventsRun ==
    \A t \in Tasks : cancel_pending[t] => (runs[t] = 0 /\ status[t] # "running")

\* C6: with a pool of size 1 whose worker is busy with another task, a
\* cancel_task call made after submit returned, on a task still queued,
\* completes: once it has cancelled the pending future it can go on to mark
\* the record cancelled and return True, and running was never written.
C6_CancelOfQueuedTaskCompletes ==
    \A c \in Callers :
        ( /\ cpc[c] \in {"decide", "cleanup_blocked"}
          /\ csaw[c].cancelled
          /\ spc[ctask[c]] = "returned"
          /\ max_workers = 1
          /\ \E u \in Busy : u # ctask[c] )
        => (runs[ctask[c]] = 0 /\ ENABLED CancelTaskReturn(c))

\* C7: if cancel_task reaches the backend of a command task while its
\* process is running, the process group is killed and the status stored
\* when the worker has finished is cancelled.
C7_CancelWhileRunningEndsCancelled ==
    \A t \in Tasks :
        cancel_hit[t] => /\ proc[t] # "running"
                         /\ wpc[t] = "idle" => status[t] = "cancelled"

\* C8: after CommandExecutor.cancel() has returned for a task, no process of
\* that task is running at any later time.
C8_NoProcessAfterCancel ==
    \A t \in Tasks : ex_cancelled[t] => proc[t] # "running"

\* C9: cancel_task returns True, and writes cancelled, exactly when a backend
\* is registered for the task or cancelling its pending future succeeded:
\* in those cases the call can go on to its return, and a call that returned
\* True has been recorded for the task.
C9_CancelTaskReturnsTrueWhenHandled ==
    \A c \in Callers :
        /\ (cpc[c] \in {"decide", "cleanup_blocked"} /\ CancelSucceeded(csaw[c]))
              => ENABLED CancelTaskReturn(c)
        /\ (cpc[c] = "done" /\ cret[c] = "True")
              => \E t \in Tasks : cancel_true[t]

\* C10: a cancel_task call made on a task that an earlier call already
\* cancelled returns False and leaves the stored status as it was.
C10_SecondCancelReturnsFalse ==
    [][\A c \in Callers :
          (cpc[c] = "decide" /\ crepeat[c] /\ cpc'[c] # "decide")
             => /\ cret'[c] = "False"
                /\ status'[ctask[c]] = status[ctask[c]]]_vars

\* C11: a cancel request for a task that has already reached completed or
\* failed, also when the task reached it after the endpoint read the record,
\* is reported as not performed (cancel_task returns False) and no step of
\* the cancel call, in the scheduler or in the endpoint, changes the stored
\* status.
C11_CancelTooLateLeavesStatus ==
    [][\A c \in Callers :
          ( /\ cpc[c] \in {"decide", "force_mark"}
            /\ cpc'[c] # cpc[c]
            /\ status[ctask[c]] \in {"completed", "failed"} )
          => /\ status'[ctask[c]] = status[ctask[c]]
             /\ cret'[c] = "False"]_vars

\* C12: while the worker handles an unexpected exception of a task whose
\* record reads cancelled, no step of the handler changes the record: failed
\* is not written over cancelled.
C12_ExceptionKeepsCancelled ==
    [][\A t \in Tasks :
          (wpc[t] \in {"exc_check", "exc_write"} /\ status[t] = "cancelled")
          => status'[t] = "cancelled"]_vars

\* C13: when the worker records the outcome of a command that timed out, the
\* process group has been killed and the status written is failed, except
\* that it is cancelled when a cancel_task call for the task was made before
\* (it returned True or the record already reads cancelled).
C13_TimeoutFailsUnlessCancelled ==
    [][\A t \in Tasks :
          (wpc[t] = "record" /\ result[t] = "timeout" /\ wpc'[t] # "record")
          => /\ proc[t] = "exited"
             /\ status'[t] = IF cancel_true[t] \/ status[t] = "cancelled"
                             THEN "cancelled" ELSE "failed"]_vars

\* C14: when the result of a finished command is classified, it is classified
\* cancelled exactly when cancel() was recorded on the backend, whatever the
\* exit code, and a command that ended with exit code -9 without a recorded
\* cancel is classified failed.
C14_CancelledIffCancelRecorded ==
    [][\A t \in Tasks :
          (wpc[t] = "wait" /\ proc[t] = "exited" /\ wpc'[t] = "unregister")
          => /\ (result'[t] = "task_cancelled") <=> ex_cancelled[t]
             /\ (exit_code[t] = SIGKILL_EXIT /\ ~ex_cancelled[t])
                   => result'[t] = "failed"]_vars

\* C15: once a task's future is done or cancelled its entry leaves the
\* in-flight table: the removal under the lock is never blocked for good
\* (whoever holds the lock can release it), and when submit has returned and
\* no worker or cancel call is at work the tables hold no entry of the task.
C15_DoneFutureLeavesTable ==
    \A t \in Tasks :
        fut[t] \in DoneStates
        => /\ t \in futures => \A c \in Callers : lock = c => ENABLED CancelTaskReturn(c)
           /\ (spc[t] = "returned" /\ wpc[t] \in {"none", "idle"} /\ lock = 0)
                 => (t \notin futures /\ t \notin executors)

\* C16: a task's future or backend reference leaves the in-flight table only
\* through the future's completion callback, that is, only once the future
\* is done or cancelled.
C16_OnlyCallbackRemoves ==
    [][\A t \in Tasks :
          ( \/ (t \in futures /\ t \notin futures')
            \/ (t \in executors /\ t \notin executors') )
          => fut[t] \in DoneStates]_vars

\* C17: a submit call under way never blocks for good: its next statement can
\* run, or the thread that holds the lock can release it.
C17_SubmitDoesNotBlock ==
    \A t \in Tasks :
        /\ spc[t] = "submitted"
              => \/ ENABLED SubmitRegister(t)
                 \/ \E c \in Callers : lock = c /\ ENABLED CancelTaskReturn(c)
        /\ spc[t] = "registered"
              => \/ ENABLED SubmitAddCallback(t)
                 \/ \E c \in Callers : lock = c /\ ENABLED CancelTaskReturn(c)

\* C18: the backend the worker calls follows the payload's task_type:
\* perf_test_api or a missing task_type -> API backend, hardware_info ->
\* remote inspection, system_maintenance -> maintenance, perf_test_cmd,
\* eval_test, pytest, env_deploy and generic_command -> command backend; and
\* one backend execution at most is performed per run.
C18_DispatchByTaskType ==
    \A t \in Tasks :
        backend[t] # "none"
        => /\ task_type[t] \in {"perf_test_api", "absent"} => backend[t] = "api"
           /\ task_type[t] = "hardware_info" => backend[t] = "hardware"
           /\ task_type[t] = "system_maintenance" => backend[t] = "maintenance"
           /\ task_type[t] \in {"perf_test_cmd", "eval_test", "pytest", "env_deploy",
                                "generic_command"} => backend[t] = "command"
           /\ executions[t] <= 1

\* C18 witness: a payload without task_type ran on the API backend and a
\* system_maintenance payload ran on the maintenance backend.
C18_Witness ==
    \E t, u \in Tasks :
        /\ task_type[t] = "absent" /\ backend[t] = "api" /\ executions[t] = 1
        /\ task_type[u] = "system_maintenance" /\ backend[u] = "maintenance"
        /\ executions[u] = 1

\* C19: a task whose payload carries an unknown task_type is refused: no
\* backend is called, no environment is touched, nothing is executed, and
\* the task ends failed.
C19_UnknownKindFailsFast ==
    \A t \in Tasks :
        (spc[t] # "idle" /\ task_type[t] \notin KnownTaskTypes \cup {"absent"})
        => /\ backend[t] = "none"
           /\ ~repo_created[t]
           /\ executions[t] = 0
           /\ wpc[t] = "idle" => status[t] = "failed"

\* C20: a perf_test_api task submitted without ssh_config ends failed, and
\* no environment is created for it.
C20_ApiWithoutSshFailsFast ==
    \A t \in Tasks :
        (PayloadTaskType(task_type[t]) = "perf_test_api" /\ ~ssh_config[t] /\ spc[t] # "idle")
        => /\ ~repo_created[t]
           /\ wpc[t] = "idle" => status[t] = "failed"

\* C21: when a backend returns success and every artifact path its result
\* names (output_file, summary output_xlsx) has no file behind it, the
\* scheduler stores a file synthesized by persist_result and the task is
\* completed, whatever the task kind.
C21_MissingArtifactFallsBack ==
    ( /\ rec.fn = "record"
      /\ ret.success
      /\ "missing" \in {ret.output_file, ret.output_xlsx}
      /\ "exists" \notin {ret.output_file, ret.output_xlsx} )
    => (rec.status = "completed" /\ rec.result_path = "synthesized")

\* C21 witness: an evaluation command succeeded naming an xlsx that is not on
\* disk, and the record holds a synthesized result file.
C21_Witness ==
    /\ call.fn = "run_command"
    /\ call.task_type = "eval_test"
    /\ ret.fn = "result"
    /\ ret.success
    /\ ret.output_xlsx = "missing"
    /\ rec.fn = "record"
    /\ rec.result_path = "synthesized"

\* C22: a completed task has a retrievable artifact: the stored result
\* location names a file that was moved into, synthesized in, or written by
\* the backend into the results directory.
C22_CompletedHasArtifact ==
    (rec.fn = "record" /\ rec.status = "completed")
    => \/ rec.result_path \in {"moved", "synthesized"}
       \/ rec.result_path = "reported" /\ ret.output_file = "exists"

\* C23: after delete_task the record is not found, none of the task's three
\* files is left, and nothing was raised, for every subset of the files that
\* existed before.
C23_DeleteRemovesAll ==
    ret.fn = "deleted" => (~ret.found /\ ret.files = {} /\ ~ret.raised)

\* C23 witness: a task with a log file only, whose record holds no result
\* path, was deleted.
C23_Witness ==
    /\ ret.fn = "deleted"
    /\ call.files = {"log"}
    /\ ~call.result_path

\* C24: a command that exits with a non-zero code, with no output file and
\* no known error pattern, and that nobody cancelled, ends failed and the
\* summary with its exit code is stored in the record.
C24_NonZeroExitFailsWithExitCode ==
    ( /\ call.fn = "run_command"
      /\ rec.fn = "record"
      /\ call.exit_code # 0
      /\ call.output_xlsx = "none"
      /\ ~call.error_pattern
      /\ ~call.cancelled )
    => /\ rec.status = "failed"
       /\ rec.summary_stored
       /\ ret.summary_exit_code = call.exit_code

\* C25: an eval_test run with exit code 0 whose captured output
\* (stdout or stderr) contains a score line ends completed with the score in
\* the stored summary.
C25_ScoreLineCompletes ==
    ( /\ call.fn = "run_command"
      /\ rec.fn = "record"
      /\ call.task_type = "eval_test"
      /\ call.exit_code = 0
      /\ call.score # "none" )
    => (rec.status = "completed" /\ rec.summary_stored /\ ret.summary_score)

C30_FallbackOnAnyKillpgFailure ==
    ( /\ ret.fn = "cancelled"
      /\ call.process_pgid
      /\ call.process_pid
      /\ call.killpg # "ok" )
    => "kill" \in ret.signals

\* C31: after a backend raised for a task, the worker has left the except
\* block with the record failed (or cancelled by a racing cancel), its pool
\* slot is given back (the cleanup callback can run, or the holder of the
\* lock can release it), and with the slot free the next queued work item is
\* taken.
C31_ExceptionReleasesWorker ==
    \A t \in Tasks :
        raised[t]
        => /\ wpc[t] \in {"set_result", "cleanup", "idle"}
                 => status[t] \in {"failed", "cancelled"}
           /\ wpc[t] = "cleanup"
                 => \/ ENABLED Cleanup(t)
                    \/ \E c \in Callers : lock = c /\ ENABLED CancelTaskReturn(c)
           /\ (wpc[t] = "idle" /\ work_queue # <<>>)
                 => ENABLED PoolDequeue(Head(work_queue))

\* C32: ensure_repo returns the binary path only if the environment then
\* exists with its binary on the branch asked for; an absent environment or
\* one on another branch is removed and rebuilt; a present and matching one
\* is left untouched; after a failed rebuild the environment is not one
\* that repo_exists accepts.
C32_EnsureRepoAtomicRebuild ==
    ret.fn = "ensured"
    => /\ ret.path => (ret.env.bin /\ ret.env.git /\ ret.env.head = "label")
       /\ (~call.env.dir \/ call.env.head = "other") => ret.rebuilt
       /\ (call.env.bin /\ call.env.head = "label")
             => (~ret.rebuilt /\ ret.env = call.env)
       /\ (ret.rebuilt /\ ~ret.path) => ~RepoExists(ret.env, TRUE)

\* C33: update_appauto runs git fetch, git checkout, git pull, the creation
\* of the venv and the install of appauto in this order; when one of them
\* fails the result is a failure and that step is the last command run; the
\* result is a success only if all five succeeded.
C33_UpdateStepsInOrder ==
    ret.fn = "updated"
    => LET IsGating(x) == \E i \in 1..Len(GatingSteps) : GatingSteps[i] = x
           ran == SelectSeq(ret.steps, IsGating)
           ok == [i \in 1..Len(GatingSteps) |->
                     <<call.fetch, call.checkout, call.pull, call.venv, call.install>>[i]]
       IN  /\ Len(ran) <= Len(GatingSteps)
           /\ \A i \in 1..Len(ran) : ran[i] = GatingSteps[i]
           /\ \A i \in 1..Len(ran) :
                  ~ok[i] => (~ret.success /\ i = Len(ran) /\ ret.steps[Len(ret.steps)] = ran[i])
           /\ ret.success => (Len(ran) = Len(GatingSteps) /\ \A i \in 1..Len(ran) : ok[i])

\* C33 witness: fetch and checkout succeeded, git pull failed, and the
\* operation ended there with a failure result.
C33_Witness ==
    /\ ret.fn = "updated"
    /\ call.fetch /\ call.checkout /\ ~call.pull
    /\ ret.steps = <<"git_fetch", "git_checkout", "git_pull">>
    /\ ~ret.success

\* C34: once the request that created a task has returned, the task has been
\* handed to the scheduler: it has a future, and while its record is queued
\* its work item is in the pool's queue or a worker has just taken it.
C34_CreatedTaskIsScheduled ==
    \A t \in Tasks :
        spc[t] \in {"returned", "created"}
        => /\ fut[t] # "none"
           /\ status[t] = "queued"
                 => \/ \E i \in 1..Len(work_queue) : work_queue[i] = t
                    \/ wpc[t] = "mark_running"

\* C35: archive_result on an existing file returns a destination that
\* exists and leaves no file at the source path; on a missing source it
\* raises FileNotFoundError and no file or directory is made or moved.
C35_ArchiveMovesOrRaises ==
    ret.fn = "archived"
    => /\ call.source_exists
             => (ret.raised = "none" /\ ret.destination /\ ~ret.source)
       /\ ~call.source_exists
             => /\ ret.raised = "FileNotFoundError"
                /\ ~ret.destination
                /\ ~ret.source
                /\ ret.archive_dir = call.archive_dir

\* C35 witness: an existing result file was archived into a directory that
\* did not exist before.
C35_Witness ==
    /\ ret.fn = "archived"
    /\ call.source_exists
    /\ ~call.archive_dir
    /\ ret.destination
    /\ ~ret.source

\* C36: while a backend reference is registered for a task, the task's
\* worker is between the registration and the deregistration in
\* _run_command_task, and the record is running or cancelled, never queued,
\* completed or failed.
C36_RegisteredMeansInFlight ==
    \A t \in Tasks :
        t \in executors
        => /\ wpc[t] \in {"spawn", "record_pid", "wait", "unregister"}
           /\ status[t] \in {"running", "cancelled"}

\* C36 witness: a backend is registered for a task whose process runs and
\* whose record was marked cancelled by a cancel request.
C36_Witness ==
    \E t \in Tasks :
        /\ t \in executors
        /\ status[t] = "cancelled"
        /\ wpc[t] = "wait"

\* C37: once delete_task has removed a task, no result file and no log file
\* of that task exists, also when the task's worker was queued or running at
\* the time of the deletion.
C37_DeletedTaskHasNoFiles ==
    \A t \in Tasks : status[t] = "deleted" => disk[t] = {}

\* C38: two workers are never inside create_repo for the same branch at the
\* same time, and a command runs only against an environment that has its
\* sources and its binary.
C38_NoConcurrentRebuild ==
    /\ \A w1 \in EnvWorkers, w2 \in EnvWorkers :
           (w1 # w2) => ~(epc[w1] \in BuildPcs /\ epc[w2] \in BuildPcs)
    /\ \A w \in EnvWorkers : epc[w] = "run" => (env_dir.git /\ env_dir.bin)

\* C39: health_check_failures of every instance is its number of
\* consecutive failed checks (a passed check resets it, a failed one adds
\* one), and an instance is in health_check_failed only while that number
\* is at least 3.
C39_HealthCounterAndStatus ==
    \A i \in Instances :
        /\ health_check_failures[i] = failed_streak[i]
        /\ instance_status[i] = "health_check_failed"
              => failed_streak[i] >= FAILURE_THRESHOLD

====
